---- MODULE Spec2Model ----
(***************************************************************************)
(* Model of the grid overlay (src/run.cpp): the globals of the process,    *)
(* the overlay window as the Win32 calls of the program configure it, the  *)
(* registry key Software\SimpleGridOverlay, and one action per message     *)
(* handled by WindowProc plus the steps of wWinMain.                       *)
(***************************************************************************)
EXTENDS Integers, FiniteSets, Sequences, TLC

VARIABLES
    pc,             \* position of the process: start, loaded, running, quit, exited
    g_isResizeMode, \* run.cpp:21
    g_windowRect,   \* run.cpp:22
    g_customDot,    \* run.cpp:25
    g_isDotSet,     \* run.cpp:26
    g_cols,         \* run.cpp:29
    g_rows,         \* run.cpp:30
    win,            \* the window behind g_hWnd, as the program configured it
    invalidated,    \* an InvalidateRect of the program not yet answered by a paint
    painted,        \* what the last WM_PAINT drew
    reg,            \* HKCU\Software\SimpleGridOverlay
    lastMsg,        \* the message WindowProc (or the step wWinMain) handled last
    saved,          \* history: in-memory state written by the last successful save
    capture         \* history: first geometry captured by ExitResizeMode, and the exits since

vars == <<pc, g_isResizeMode, g_windowRect, g_customDot, g_isDotSet, g_cols, g_rows,
          win, invalidated, painted, reg, lastMsg, saved, capture>>

-----------------------------------------------------------------------------
(* Values *)

Rect(l, t, r, b) == [left |-> l, top |-> t, right |-> r, bottom |-> b]

Point(px, py) == [x |-> px, y |-> py]

RGB(r, g, b) == r + 256 * g + 65536 * b

DefaultRect == Rect(100, 100, 900, 600)

DefaultDot == Point(0, 0)

GridCols == 10

GridRows == 6

TRANSPARENT_COLOR == RGB(0, 0, 1)

COLOR_3DFACE == RGB(240, 240, 240)

VK_ESCAPE == 27

VK_OTHER == 65

RESIZE_HOTKEY_ID == 1

APP_TITLE == "Grid Overlay"

RESIZE_TITLE == "Resize | L-Click: Place Dot | R-Click: Remove | ESC: Lock"

\* Rectangles the user can drag the decorated window to.
LiveRects == {Rect(10, 10, 400, 300)}

\* Client coordinates of the clicks.
ClickPoints == {Point(50, 30), Point(7, 9)}

Keys == {VK_ESCAPE, VK_OTHER}

HotkeyIds == {RESIZE_HOTKEY_ID, 2}

Commands == {"ID_TRAY_EXIT", "ID_TRAY_RESIZE", "ID_OTHER"}

\* Bound of the history counter of Resize -> Overlay exits since the first capture.
MaxExits == 2

-----------------------------------------------------------------------------
(* Win32 helpers, as the program uses them *)

Max0(n) == IF n < 0 THEN 0 ELSE n

\* SetWindowPos / CreateWindowEx take an origin and a size; a negative size is
\* treated as zero by the window manager.
SetWindowPosRect(x, y, cx, cy) == Rect(x, y, x + Max0(cx), y + Max0(cy))

ApplyRect(r) == SetWindowPosRect(r.left, r.top, r.right - r.left, r.bottom - r.top)

MAKELPARAM(lo, hi) == (lo % 65536) + 65536 * (hi % 65536)

LOWORD(l) == l % 65536

HIWORD(l) == (l \div 65536) % 65536

BoolToByte(b) == IF b THEN 1 ELSE 0

NoWindow ==
    [exists |-> FALSE, rect |-> Rect(0, 0, 0, 0), lwa |-> "NONE", key |-> 0,
     alpha |-> 0, exStyle |-> {}, style |-> {}, title |-> ""]

NoPaint ==
    [bgColor |-> 0, dots |-> {}, gdiLive |-> 0, vlines |-> <<>>, hlines |-> <<>>,
     labels |-> 0]

NoKey == [exists |-> FALSE, windowRect |-> {}, isDotSet |-> {}, customDot |-> {}]

Msg(u, w, c, px, py, rb, ok) ==
    [uMsg |-> u, wParam |-> w, cmd |-> c, x |-> px, y |-> py, resizeBefore |-> rb,
     regOK |-> ok]

-----------------------------------------------------------------------------
(* Registry *)

\* Mutant of RegSetValues: the isDotSet value is only written when the marker
\* is present.
RegSetValues_staleFlag(r, rect, isSet, dot) ==
    [exists    |-> TRUE,
     windowRect |-> {rect},
     isDotSet  |-> IF isSet THEN {1} ELSE r.isDotSet,
     customDot |-> IF isSet THEN {dot} ELSE r.customDot]

\* The three RegSetValueEx calls of SaveSettings on an opened key.
RegSetValues(r, rect, isSet, dot) ==
    [exists    |-> TRUE,
     windowRect |-> {rect},
     isDotSet  |-> {BoolToByte(isSet)},
     customDot |-> IF isSet THEN {dot} ELSE r.customDot]

\* RegGetValue leaves the buffer alone when the value is missing.
\* Mutant of LoadedRect: the windowRect value is never read back.
LoadedRect_notRead(opened, r, cur) == cur

LoadedRect(opened, r, cur) ==
    IF opened /\ r.windowRect # {} THEN CHOOSE v \in r.windowRect : TRUE ELSE cur

LoadedDotSet(opened, r, cur) ==
    IF opened /\ r.isDotSet # {} THEN (CHOOSE v \in r.isDotSet : TRUE) # 0 ELSE cur

LoadedDot(opened, r, isSet, cur) ==
    IF opened /\ isSet /\ r.customDot # {} THEN CHOOSE v \in r.customDot : TRUE ELSE cur

\* What the key may hold when the first process starts: no key, a key without
\* values, the values of an earlier run, or a degenerate rectangle.
InitialRegs ==
    {NoKey,
     [exists |-> TRUE, windowRect |-> {}, isDotSet |-> {}, customDot |-> {}],
     [exists |-> TRUE, windowRect |-> {Rect(200, 150, 700, 500)}, isDotSet |-> {1},
      customDot |-> {Point(7, 9)}],
     [exists |-> TRUE, windowRect |-> {Rect(300, 300, 300, 250)}, isDotSet |-> {0},
      customDot |-> {}]}

-----------------------------------------------------------------------------
(* Painting *)

\* Non-client width and height of a captioned, sizable window (both borders;
\* caption plus both borders), as GetClientRect subtracts them.
NC_CX == 16

NC_CY == 39

\* GetClientRect(g_hWnd): right and bottom are the client width and height.
GetClientRect(w) ==
    LET cx == w.rect.right - w.rect.left
        cy == w.rect.bottom - w.rect.top
    IN IF "WS_CAPTION" \in w.style
       THEN [width |-> Max0(cx - NC_CX), height |-> Max0(cy - NC_CY)]
       ELSE [width |-> cx, height |-> cy]

\* Single-precision arithmetic: a float is m * 2^e with m = 0 or
\* 2^23 <= m < 2^24; results are rounded to nearest, ties to even.
RECURSIVE Pow2Rec(_)
Pow2Rec(n) == IF n <= 0 THEN 1 ELSE 2 * Pow2Rec(n - 1)

Pow2Table == [n \in 0..30 |-> Pow2Rec(n)]

Pow2(n) == Pow2Table[n]

FZero == [m |-> 0, e |-> 0]

RoundHalfEven(n, d) ==
    LET q == n \div d
        r == n % d
    IN IF 2 * r < d THEN q
       ELSE IF 2 * r > d THEN q + 1
       ELSE IF q % 2 = 0 THEN q ELSE q + 1

FNormal(m, e) == IF m = Pow2(24) THEN [m |-> Pow2(23), e |-> e + 1] ELSE [m |-> m, e |-> e]

RECURSIVE DivShift(_, _, _)
DivShift(a, b, k) == IF a * Pow2(k) >= b * Pow2(23) THEN k ELSE DivShift(a, b, k + 1)

\* (float)a / b for integers a >= 0, b > 0.
FDiv(a, b) ==
    IF a = 0 THEN FZero
    ELSE LET k == DivShift(a, b, 0)
         IN FNormal(RoundHalfEven(a * Pow2(k), b), 0 - k)

RECURSIVE MulShift(_, _)
MulShift(p, s) == IF p < Pow2(24) * Pow2(s) THEN s ELSE MulShift(p, s + 1)

\* i * f for an integer i >= 0 (converted to float exactly) and a float f.
FMulInt(i, f) ==
    IF i = 0 \/ f.m = 0 THEN FZero
    ELSE LET p == i * f.m
             s == MulShift(p, 0)
         IN FNormal(RoundHalfEven(p, Pow2(s)), f.e + s)

\* (int)f: truncation toward zero.
FToInt(f) ==
    IF f.m = 0 THEN 0
    ELSE IF f.e >= 0 THEN f.m * Pow2(f.e)
    ELSE IF 0 - f.e > 30 THEN 0
    ELSE f.m \div Pow2(0 - f.e)

\* Mutant of GridLines: the loop runs to i <= n.
GridLines_oneMore(size, n) ==
    LET cell == FDiv(size, n)
    IN [i \in 1..n |-> FToInt(FMulInt(i, cell))]

\* The positions of the n-1 separators of a surface of the given size:
\* (int)(i * cell) for i = 1 .. n-1, with cell = (float)size / n.
GridLines(size, n) ==
    LET cell == FDiv(size, n)
    IN [i \in 1..(n - 1) |-> FToInt(FMulInt(i, cell))]

\* GridLines of the usual sizes, computed once.
LinesTable == [n \in 1..10 |-> [size \in 0..1023 |-> GridLines(size, n)]]

SeparatorLines(size, n) ==
    IF n \in 1..10 /\ size \in 0..1023 THEN LinesTable[n][size] ELSE GridLines(size, n)

\* The early return of DrawGrid.
\* Mutant of Degenerate: only the column count is tested.
Degenerate_colsOnly(cols, rows) == cols <= 0

Degenerate(cols, rows) == cols <= 0 \/ rows <= 0

\* Mutant of GdiDeleted: the pen of the marker is not deleted.
GdiDeleted_dotPenLeaks(degenerate, isSet) ==
    {"bgBrush"} \cup
    (IF degenerate THEN {}
     ELSE {"hPen", "hFont"} \cup (IF isSet THEN {"hDotBrush"} ELSE {}))

\* The objects one paint pass creates (CreateSolidBrush, CreatePen, CreateFont).
GdiCreated(degenerate, isSet) ==
    {"bgBrush"} \cup
    (IF degenerate THEN {}
     ELSE {"hPen", "hFont"} \cup (IF isSet THEN {"hDotBrush", "hDotPen"} ELSE {}))

\* The objects one paint pass passes to DeleteObject.
GdiDeleted(degenerate, isSet) ==
    {"bgBrush"} \cup
    (IF degenerate THEN {}
     ELSE {"hPen", "hFont"} \cup (IF isSet THEN {"hDotBrush", "hDotPen"} ELSE {}))

\* DrawGrid on a client area of the given size.
DrawGrid(width, height, cols, rows, isSet, dot) ==
    IF Degenerate(cols, rows)
    THEN [vlines |-> <<>>, hlines |-> <<>>, labels |-> 0, dots |-> {}]
    ELSE [vlines |-> SeparatorLines(width, cols),
          hlines |-> SeparatorLines(height, rows),
          labels |-> cols,
          dots   |-> IF isSet THEN {dot} ELSE {}]

\* Mutant of BackgroundColor: Overlay mode is filled with black instead of the
\* colour key.
BackgroundColor_black(isResize) == IF isResize THEN COLOR_3DFACE ELSE RGB(0, 0, 0)

\* run.cpp:251
BackgroundColor(isResize) == IF isResize THEN COLOR_3DFACE ELSE TRANSPARENT_COLOR

\* WM_PAINT: background fill, then DrawGrid.
Paint(isResize, isSet, dot, client, cols, rows) ==
    LET g == DrawGrid(client.width, client.height, cols, rows, isSet, dot)
        d == Degenerate(cols, rows)
    IN [bgColor |-> BackgroundColor(isResize),
        dots    |-> g.dots,
        gdiLive |-> Cardinality(GdiCreated(d, isSet) \ GdiDeleted(d, isSet)),
        vlines  |-> g.vlines,
        hlines  |-> g.hlines,
        labels  |-> g.labels]

-----------------------------------------------------------------------------
(* Initial state: a process about to enter wWinMain *)

Init ==
    /\ pc = "start"
    /\ g_isResizeMode = FALSE
    /\ g_windowRect = DefaultRect
    /\ g_customDot = DefaultDot
    /\ g_isDotSet = FALSE
    /\ g_cols = GridCols
    /\ g_rows = GridRows
    /\ win = NoWindow
    /\ invalidated = FALSE
    /\ painted = NoPaint
    /\ reg \in InitialRegs
    /\ lastMsg = Msg("NONE", 0, "", 0, 0, FALSE, FALSE)
    /\ saved = {}
    /\ capture = {}

-----------------------------------------------------------------------------
(* SaveSettings / LoadSettings *)

\* Mutant of SaveSettings: a failed RegCreateKeyEx resets the geometry to the
\* default rectangle.
SaveSettings_failResets(ok, hwndRect, memRect) ==
    /\ g_windowRect' = IF ok THEN hwndRect ELSE DefaultRect
    /\ reg' = IF ok THEN RegSetValues(reg, hwndRect, g_isDotSet, g_customDot) ELSE reg
    /\ saved' = IF ok
                THEN {[rect |-> hwndRect, dot |-> g_customDot, present |-> g_isDotSet]}
                ELSE saved

\* hwndRect is GetWindowRect(g_hWnd) at the time of the call, memRect the
\* value of g_windowRect at the call; ok is the outcome of RegCreateKeyEx.
SaveSettings(ok, hwndRect, memRect) ==
    /\ g_windowRect' = IF ok THEN hwndRect ELSE memRect
    /\ reg' = IF ok THEN RegSetValues(reg, hwndRect, g_isDotSet, g_customDot) ELSE reg
    /\ saved' = IF ok
                THEN {[rect |-> hwndRect, dot |-> g_customDot, present |-> g_isDotSet]}
                ELSE saved

\* ok is the outcome of RegOpenKeyEx on an existing key.
LoadSettings(ok) ==
    LET opened == ok /\ reg.exists
        isSet  == LoadedDotSet(opened, reg, g_isDotSet)
    IN /\ g_windowRect' = LoadedRect(opened, reg, g_windowRect)
       /\ g_isDotSet' = isSet
       /\ g_customDot' = LoadedDot(opened, reg, isSet, g_customDot)

-----------------------------------------------------------------------------
(* Mode transitions *)

\* Mutant of EnterResizeMode: the settings are saved on entering Resize mode too.
EnterResizeMode_saves ==
    /\ g_isResizeMode' = TRUE
    /\ win' = [win EXCEPT !.lwa = "LWA_ALPHA", !.key = 0, !.alpha = 254,
                          !.exStyle = {"WS_EX_LAYERED", "WS_EX_TOPMOST"},
                          !.style = {"WS_VISIBLE", "WS_CAPTION", "WS_SYSMENU", "WS_SIZEBOX"},
                          !.title = RESIZE_TITLE]
    /\ invalidated' = TRUE
    /\ g_windowRect' = win.rect
    /\ reg' = RegSetValues(reg, win.rect, g_isDotSet, g_customDot)
    /\ saved' = {[rect |-> win.rect, dot |-> g_customDot, present |-> g_isDotSet]}
    /\ UNCHANGED <<g_customDot, g_isDotSet, capture>>

\* Mutant of EnterResizeMode: the SetWindowPos call lacks SWP_NOMOVE | SWP_NOSIZE,
\* so its zero origin and size are applied.
EnterResizeMode_moves ==
    /\ g_isResizeMode' = TRUE
    /\ win' = [win EXCEPT !.rect = SetWindowPosRect(0, 0, 0, 0),
                          !.lwa = "LWA_ALPHA", !.key = 0, !.alpha = 254,
                          !.exStyle = {"WS_EX_LAYERED", "WS_EX_TOPMOST"},
                          !.style = {"WS_VISIBLE", "WS_CAPTION", "WS_SYSMENU", "WS_SIZEBOX"},
                          !.title = RESIZE_TITLE]
    /\ invalidated' = TRUE
    /\ UNCHANGED <<g_windowRect, g_customDot, g_isDotSet, reg, saved, capture>>

EnterResizeMode ==
    /\ g_isResizeMode' = TRUE
    /\ win' = [win EXCEPT !.lwa = "LWA_ALPHA", !.key = 0, !.alpha = 254,
                          !.exStyle = {"WS_EX_LAYERED", "WS_EX_TOPMOST"},
                          !.style = {"WS_VISIBLE", "WS_CAPTION", "WS_SYSMENU", "WS_SIZEBOX"},
                          !.title = RESIZE_TITLE]
    /\ invalidated' = TRUE
    /\ UNCHANGED <<g_windowRect, g_customDot, g_isDotSet, reg, saved, capture>>

\* Mutant of ExitResizeMode: the marker is cleared on leaving Resize mode.
ExitResizeMode_clearsDot(ok) ==
    LET captured == win.rect
        applied  == ApplyRect(captured)
    IN /\ g_isResizeMode' = FALSE
       /\ win' = [win EXCEPT !.rect = applied,
                             !.lwa = "LWA_COLORKEY", !.key = TRANSPARENT_COLOR, !.alpha = 0,
                             !.exStyle = {"WS_EX_LAYERED", "WS_EX_TRANSPARENT", "WS_EX_TOPMOST"},
                             !.style = {"WS_POPUP", "WS_VISIBLE"},
                             !.title = APP_TITLE]
       /\ g_windowRect' = IF ok THEN applied ELSE captured
       /\ reg' = IF ok THEN RegSetValues(reg, applied, FALSE, g_customDot) ELSE reg
       /\ saved' = IF ok
                   THEN {[rect |-> applied, dot |-> g_customDot, present |-> FALSE]}
                   ELSE saved
       /\ g_isDotSet' = FALSE
       /\ capture' = IF capture = {}
                     THEN {[rect |-> captured, exits |-> 1]}
                     ELSE {[c EXCEPT !.exits = IF c.exits < MaxExits THEN c.exits + 1 ELSE c.exits]
                             : c \in capture}
       /\ UNCHANGED <<g_customDot, invalidated>>

\* Mutant of ExitResizeMode: WS_EX_TRANSPARENT is not restored.
ExitResizeMode_notClickThrough(ok) ==
    LET captured == win.rect
        applied  == ApplyRect(captured)
    IN /\ g_isResizeMode' = FALSE
       /\ win' = [win EXCEPT !.rect = applied,
                             !.lwa = "LWA_COLORKEY", !.key = TRANSPARENT_COLOR, !.alpha = 0,
                             !.exStyle = {"WS_EX_LAYERED", "WS_EX_TOPMOST"},
                             !.style = {"WS_POPUP", "WS_VISIBLE"},
                             !.title = APP_TITLE]
       /\ SaveSettings(ok, applied, captured)
       /\ capture' = IF capture = {}
                     THEN {[rect |-> captured, exits |-> 1]}
                     ELSE {[c EXCEPT !.exits = IF c.exits < MaxExits THEN c.exits + 1 ELSE c.exits]
                             : c \in capture}
       /\ UNCHANGED <<g_customDot, g_isDotSet, invalidated>>

\* Mutant of ExitResizeMode: the GetWindowRect capture is missing, the stale
\* g_windowRect is re-applied.
ExitResizeMode_noCapture(ok) ==
    LET captured == g_windowRect
        applied  == ApplyRect(captured)
    IN /\ g_isResizeMode' = FALSE
       /\ win' = [win EXCEPT !.rect = applied,
                             !.lwa = "LWA_COLORKEY", !.key = TRANSPARENT_COLOR, !.alpha = 0,
                             !.exStyle = {"WS_EX_LAYERED", "WS_EX_TRANSPARENT", "WS_EX_TOPMOST"},
                             !.style = {"WS_POPUP", "WS_VISIBLE"},
                             !.title = APP_TITLE]
       /\ SaveSettings(ok, applied, captured)
       /\ capture' = IF capture = {}
                     THEN {[rect |-> captured, exits |-> 1]}
                     ELSE {[c EXCEPT !.exits = IF c.exits < MaxExits THEN c.exits + 1 ELSE c.exits]
                             : c \in capture}
       /\ UNCHANGED <<g_customDot, g_isDotSet, invalidated>>

ExitResizeMode(ok) ==
    LET captured == win.rect
        applied  == ApplyRect(captured)
    IN /\ g_isResizeMode' = FALSE
       /\ win' = [win EXCEPT !.rect = applied,
                             !.lwa = "LWA_COLORKEY", !.key = TRANSPARENT_COLOR, !.alpha = 0,
                             !.exStyle = {"WS_EX_LAYERED", "WS_EX_TRANSPARENT", "WS_EX_TOPMOST"},
                             !.style = {"WS_POPUP", "WS_VISIBLE"},
                             !.title = APP_TITLE]
       /\ SaveSettings(ok, applied, captured)
       /\ capture' = IF capture = {}
                     THEN {[rect |-> captured, exits |-> 1]}
                     ELSE {[c EXCEPT !.exits = IF c.exits < MaxExits THEN c.exits + 1 ELSE c.exits]
                             : c \in capture}
       /\ UNCHANGED <<g_customDot, g_isDotSet, invalidated>>

-----------------------------------------------------------------------------
(* wWinMain *)

\* run.cpp:302
wWinMain_LoadSettings ==
    /\ pc = "start"
    /\ UNCHANGED <<g_cols, g_rows>>
    /\ \E ok \in BOOLEAN :
          /\ LoadSettings(ok)
          /\ lastMsg' = Msg("LoadSettings", 0, "", 0, 0, FALSE, ok /\ reg.exists)
    /\ pc' = "loaded"
    /\ UNCHANGED <<g_isResizeMode, win, invalidated, painted, reg, saved, capture>>

\* Mutant of wWinMain_CreateWindow: the window is created and shown at a fixed
\* rectangle instead of g_windowRect.
wWinMain_CreateWindow_fixedRect ==
    /\ pc = "loaded"
    /\ UNCHANGED <<g_cols, g_rows>>
    /\ win' = [exists  |-> TRUE,
               rect    |-> SetWindowPosRect(0, 0, 800, 500),
               lwa     |-> "LWA_COLORKEY",
               key     |-> TRANSPARENT_COLOR,
               alpha   |-> 0,
               exStyle |-> {"WS_EX_LAYERED", "WS_EX_TRANSPARENT", "WS_EX_TOPMOST"},
               style   |-> {"WS_POPUP", "WS_VISIBLE"},
               title   |-> APP_TITLE]
    /\ painted' = Paint(g_isResizeMode, g_isDotSet, g_customDot, GetClientRect(win'),
                        g_cols, g_rows)
    /\ invalidated' = FALSE
    /\ lastMsg' = Msg("WM_CREATE", 0, "", 0, 0, g_isResizeMode, lastMsg.regOK)
    /\ pc' = "running"
    /\ UNCHANGED <<g_isResizeMode, g_windowRect, g_customDot, g_isDotSet, reg, saved, capture>>

\* run.cpp:313-325: CreateWindowEx (which runs the WM_CREATE handler),
\* SetLayeredWindowAttributes, ShowWindow, UpdateWindow (which paints).
wWinMain_CreateWindow ==
    /\ pc = "loaded"
    /\ UNCHANGED <<g_cols, g_rows>>
    /\ win' = [exists  |-> TRUE,
               rect    |-> ApplyRect(g_windowRect),
               lwa     |-> "LWA_COLORKEY",
               key     |-> TRANSPARENT_COLOR,
               alpha   |-> 0,
               exStyle |-> {"WS_EX_LAYERED", "WS_EX_TRANSPARENT", "WS_EX_TOPMOST"},
               style   |-> {"WS_POPUP", "WS_VISIBLE"},
               title   |-> APP_TITLE]
    /\ painted' = Paint(g_isResizeMode, g_isDotSet, g_customDot, GetClientRect(win'),
                        g_cols, g_rows)
    /\ invalidated' = FALSE
    /\ lastMsg' = Msg("WM_CREATE", 0, "", 0, 0, g_isResizeMode, lastMsg.regOK)
    /\ pc' = "running"
    /\ UNCHANGED <<g_isResizeMode, g_windowRect, g_customDot, g_isDotSet, reg, saved, capture>>

\* run.cpp:320: CreateWindowEx returned NULL.
wWinMain_CreateFailed ==
    /\ pc = "loaded"
    /\ UNCHANGED <<g_cols, g_rows>>
    /\ lastMsg' = Msg("CreateFailed", 0, "", 0, 0, g_isResizeMode, lastMsg.regOK)
    /\ pc' = "exited"
    /\ UNCHANGED <<g_isResizeMode, g_windowRect, g_customDot, g_isDotSet, win,
                   invalidated, painted, reg, saved, capture>>

\* run.cpp:328: GetMessage returns 0 on WM_QUIT.
MessageLoopExit ==
    /\ pc = "quit"
    /\ UNCHANGED <<g_cols, g_rows>>
    /\ pc' = "exited"
    /\ lastMsg' = Msg("WM_QUIT", 0, "", 0, 0, g_isResizeMode, TRUE)
    /\ UNCHANGED <<g_isResizeMode, g_windowRect, g_customDot, g_isDotSet, win,
                   invalidated, painted, reg, saved, capture>>

\* The next process: the globals get their static initialisers (run.cpp:19-26);
\* the registry is what the previous process left.
ProcessStart ==
    /\ pc = "exited"
    /\ UNCHANGED <<g_cols, g_rows>>
    /\ pc' = "start"
    /\ g_isResizeMode' = FALSE
    /\ g_windowRect' = DefaultRect
    /\ g_customDot' = DefaultDot
    /\ g_isDotSet' = FALSE
    /\ win' = NoWindow
    /\ invalidated' = FALSE
    /\ painted' = NoPaint
    /\ lastMsg' = Msg("NONE", 0, "", 0, 0, FALSE, FALSE)
    /\ capture' = {}
    /\ UNCHANGED <<reg, saved>>

-----------------------------------------------------------------------------
(* WindowProc *)

\* Mutant of WM_LBUTTONDOWN: the g_isResizeMode guard is missing.
WM_LBUTTONDOWN_unguarded(px, py) ==
    /\ pc = "running"
    /\ UNCHANGED <<g_cols, g_rows>>
    /\ LET lParam == MAKELPARAM(px, py) IN
         /\ g_customDot' = Point(LOWORD(lParam), HIWORD(lParam))
         /\ g_isDotSet' = TRUE
         /\ invalidated' = TRUE
    /\ lastMsg' = Msg("WM_LBUTTONDOWN", 0, "", px, py, g_isResizeMode, TRUE)
    /\ capture' = {}
    /\ UNCHANGED <<pc, g_isResizeMode, g_windowRect, win, painted, reg, saved>>

WM_LBUTTONDOWN(px, py) ==
    /\ pc = "running"
    /\ UNCHANGED <<g_cols, g_rows>>
    /\ LET lParam == MAKELPARAM(px, py) IN
         IF g_isResizeMode
         THEN /\ g_customDot' = Point(LOWORD(lParam), HIWORD(lParam))
              /\ g_isDotSet' = TRUE
              /\ invalidated' = TRUE
         ELSE UNCHANGED <<g_customDot, g_isDotSet, invalidated>>
    /\ lastMsg' = Msg("WM_LBUTTONDOWN", 0, "", px, py, g_isResizeMode, TRUE)
    /\ capture' = {}
    /\ UNCHANGED <<pc, g_isResizeMode, g_windowRect, win, painted, reg, saved>>

\* Mutant of WM_RBUTTONDOWN: the InvalidateRect call is missing.
WM_RBUTTONDOWN_noRedraw(px, py) ==
    /\ pc = "running"
    /\ UNCHANGED <<g_cols, g_rows>>
    /\ IF g_isResizeMode
       THEN g_isDotSet' = FALSE
       ELSE UNCHANGED g_isDotSet
    /\ lastMsg' = Msg("WM_RBUTTONDOWN", 0, "", px, py, g_isResizeMode, TRUE)
    /\ capture' = {}
    /\ UNCHANGED <<pc, g_isResizeMode, g_windowRect, g_customDot, win, invalidated,
                   painted, reg, saved>>

\* Mutant of WM_RBUTTONDOWN: removing the marker also zeroes its coordinates.
WM_RBUTTONDOWN_zeroes(px, py) ==
    /\ pc = "running"
    /\ UNCHANGED <<g_cols, g_rows>>
    /\ IF g_isResizeMode
       THEN /\ g_isDotSet' = FALSE
            /\ g_customDot' = Point(0, 0)
            /\ invalidated' = TRUE
       ELSE UNCHANGED <<g_isDotSet, g_customDot, invalidated>>
    /\ lastMsg' = Msg("WM_RBUTTONDOWN", 0, "", px, py, g_isResizeMode, TRUE)
    /\ capture' = {}
    /\ UNCHANGED <<pc, g_isResizeMode, g_windowRect, win, painted, reg, saved>>

WM_RBUTTONDOWN(px, py) ==
    /\ pc = "running"
    /\ UNCHANGED <<g_cols, g_rows>>
    /\ IF g_isResizeMode
       THEN /\ g_isDotSet' = FALSE
            /\ invalidated' = TRUE
       ELSE UNCHANGED <<g_isDotSet, invalidated>>
    /\ lastMsg' = Msg("WM_RBUTTONDOWN", 0, "", px, py, g_isResizeMode, TRUE)
    /\ capture' = {}
    /\ UNCHANGED <<pc, g_isResizeMode, g_windowRect, g_customDot, win, painted, reg, saved>>

\* Both toggles of the program: the hot key and the tray menu command.
ToggleMode(ok) ==
    IF g_isResizeMode
    THEN ExitResizeMode(ok)
    ELSE EnterResizeMode

WM_HOTKEY(id) ==
    /\ pc = "running"
    /\ UNCHANGED <<g_cols, g_rows>>
    /\ \E ok \in BOOLEAN :
         /\ IF id = RESIZE_HOTKEY_ID
            THEN ToggleMode(ok)
            ELSE UNCHANGED <<g_isResizeMode, g_windowRect, g_customDot, g_isDotSet, win,
                             invalidated, reg, saved, capture>>
         /\ lastMsg' = Msg("WM_HOTKEY", id, "", 0, 0, g_isResizeMode,
                           IF id = RESIZE_HOTKEY_ID /\ g_isResizeMode THEN ok ELSE TRUE)
    /\ UNCHANGED <<pc, painted>>

\* Mutant of WM_KEYDOWN: Escape toggles like the hot key does.
WM_KEYDOWN_toggles(key) ==
    /\ pc = "running"
    /\ UNCHANGED <<g_cols, g_rows>>
    /\ \E ok \in BOOLEAN :
         /\ IF key = VK_ESCAPE
            THEN ToggleMode(ok)
            ELSE UNCHANGED <<g_isResizeMode, g_windowRect, g_customDot, g_isDotSet, win,
                             invalidated, reg, saved, capture>>
         /\ lastMsg' = Msg("WM_KEYDOWN", key, "", 0, 0, g_isResizeMode,
                           IF g_isResizeMode /\ key = VK_ESCAPE THEN ok ELSE TRUE)
    /\ UNCHANGED <<pc, painted>>

WM_KEYDOWN(key) ==
    /\ pc = "running"
    /\ UNCHANGED <<g_cols, g_rows>>
    /\ \E ok \in BOOLEAN :
         /\ IF g_isResizeMode /\ key = VK_ESCAPE
            THEN ExitResizeMode(ok)
            ELSE UNCHANGED <<g_isResizeMode, g_windowRect, g_customDot, g_isDotSet, win,
                             invalidated, reg, saved, capture>>
         /\ lastMsg' = Msg("WM_KEYDOWN", key, "", 0, 0, g_isResizeMode,
                           IF g_isResizeMode /\ key = VK_ESCAPE THEN ok ELSE TRUE)
    /\ UNCHANGED <<pc, painted>>

WM_PAINT ==
    /\ pc = "running"
    /\ UNCHANGED <<g_cols, g_rows>>
    /\ painted' = Paint(g_isResizeMode, g_isDotSet, g_customDot, GetClientRect(win),
                        g_cols, g_rows)
    /\ invalidated' = FALSE
    /\ lastMsg' = Msg("WM_PAINT", 0, "", 0, 0, g_isResizeMode, TRUE)
    /\ UNCHANGED <<pc, g_isResizeMode, g_windowRect, g_customDot, g_isDotSet, win,
                   reg, saved, capture>>

\* The tray icon shows its menu; the menu posts WM_COMMAND later.
WM_APP_TRAY_MSG ==
    /\ pc = "running"
    /\ UNCHANGED <<g_cols, g_rows>>
    /\ lastMsg' = Msg("WM_APP_TRAY_MSG", 0, "", 0, 0, g_isResizeMode, TRUE)
    /\ UNCHANGED <<pc, g_isResizeMode, g_windowRect, g_customDot, g_isDotSet, win,
                   invalidated, painted, reg, saved, capture>>

\* Mutant of WM_DESTROY: the save writes g_windowRect without reading the
\* rectangle of the window again.
WM_DESTROY_staleRect(ok) ==
    /\ SaveSettings(ok, g_windowRect, g_windowRect)
    /\ win' = NoWindow
    /\ pc' = "quit"
    /\ UNCHANGED <<g_isResizeMode, g_customDot, g_isDotSet, invalidated, painted, capture>>

\* Mutant of WM_DESTROY: the SaveSettings call is missing.
WM_DESTROY_noSave(ok) ==
    /\ win' = NoWindow
    /\ pc' = "quit"
    /\ UNCHANGED <<g_isResizeMode, g_windowRect, g_customDot, g_isDotSet, invalidated,
                   painted, reg, saved, capture>>

\* WM_DESTROY, reached through DestroyWindow: save, then post WM_QUIT.
WM_DESTROY(ok) ==
    /\ SaveSettings(ok, win.rect, g_windowRect)
    /\ win' = NoWindow
    /\ pc' = "quit"
    /\ UNCHANGED <<g_isResizeMode, g_customDot, g_isDotSet, invalidated, painted, capture>>

WM_COMMAND(cmd) ==
    /\ pc = "running"
    /\ UNCHANGED <<g_cols, g_rows>>
    /\ \E ok \in BOOLEAN :
         /\ CASE cmd = "ID_TRAY_EXIT" -> WM_DESTROY(ok)
              [] cmd = "ID_TRAY_RESIZE" -> ToggleMode(ok) /\ UNCHANGED <<pc, painted>>
              [] OTHER -> UNCHANGED <<pc, g_isResizeMode, g_windowRect, g_customDot,
                                      g_isDotSet, win, invalidated, painted, reg, saved,
                                      capture>>
         /\ lastMsg' = Msg("WM_COMMAND", 0, cmd, 0, 0, g_isResizeMode,
                           IF cmd = "ID_TRAY_EXIT" \/ (cmd = "ID_TRAY_RESIZE" /\ g_isResizeMode)
                           THEN ok ELSE TRUE)

\* WM_CLOSE is not in the switch: DefWindowProc destroys the window.
WM_CLOSE ==
    /\ pc = "running"
    /\ UNCHANGED <<g_cols, g_rows>>
    /\ \E ok \in BOOLEAN :
         /\ WM_DESTROY(ok)
         /\ lastMsg' = Msg("WM_CLOSE", 0, "", 0, 0, g_isResizeMode, ok)

\* The user drags or resizes the decorated window; DefWindowProc handles it.
UserMoveResize(r) ==
    /\ pc = "running"
    /\ UNCHANGED <<g_cols, g_rows>>
    /\ g_isResizeMode
    /\ win' = [win EXCEPT !.rect = r]
    /\ lastMsg' = Msg("WM_WINDOWPOSCHANGED", 0, "", 0, 0, g_isResizeMode, TRUE)
    /\ capture' = {}
    /\ UNCHANGED <<pc, g_isResizeMode, g_windowRect, g_customDot, g_isDotSet,
                   invalidated, painted, reg, saved>>

-----------------------------------------------------------------------------

Next ==
    \/ wWinMain_LoadSettings
    \/ wWinMain_CreateWindow
    \/ wWinMain_CreateFailed
    \/ MessageLoopExit
    \/ ProcessStart
    \/ \E p \in ClickPoints : WM_LBUTTONDOWN(p.x, p.y)
    \/ \E p \in ClickPoints : WM_RBUTTONDOWN(p.x, p.y)
    \/ \E id \in HotkeyIds : WM_HOTKEY(id)
    \/ \E key \in Keys : WM_KEYDOWN(key)
    \/ WM_PAINT
    \/ WM_APP_TRAY_MSG
    \/ \E cmd \in Commands : WM_COMMAND(cmd)
    \/ WM_CLOSE
    \/ \E r \in LiveRects : UserMoveResize(r)

Spec == Init /\ [][Next]_vars

-----------------------------------------------------------------------------
(* The renderer on its own: one window of any small size, any grid *)

\* The window configuration of Overlay mode at rectangle r.
OverlayWindow(r) ==
    [exists  |-> TRUE, rect |-> r, lwa |-> "LWA_COLORKEY", key |-> TRANSPARENT_COLOR,
     alpha   |-> 0,
     exStyle |-> {"WS_EX_LAYERED", "WS_EX_TRANSPARENT", "WS_EX_TOPMOST"},
     style   |-> {"WS_POPUP", "WS_VISIBLE"},
     title   |-> APP_TITLE]

\* The window configuration of Resize mode at rectangle r.
ResizeWindow(r) ==
    [exists  |-> TRUE, rect |-> r, lwa |-> "LWA_ALPHA", key |-> 0, alpha |-> 254,
     exStyle |-> {"WS_EX_LAYERED", "WS_EX_TOPMOST"},
     style   |-> {"WS_VISIBLE", "WS_CAPTION", "WS_SYSMENU", "WS_SIZEBOX"},
     title   |-> RESIZE_TITLE]

\* Largest of the small surface widths.
MaxSurface == 11

SurfaceWidths == 0..MaxSurface \cup {800}

SurfaceHeights == {0, 5, 6, 500}

ColumnCounts == {-1, 0, 1, 3, 10}

RowCounts == {-1, 0, 1, 6}

\* A running process whose window has the given size and whose grid has the
\* given dimensions; in Resize mode the window is larger by the frame.
InitGrid ==
    /\ pc = "running"
    /\ g_isResizeMode \in BOOLEAN
    /\ g_windowRect = DefaultRect
    /\ g_customDot = Point(7, 9)
    /\ g_isDotSet \in BOOLEAN
    /\ g_cols \in ColumnCounts
    /\ g_rows \in RowCounts
    /\ \E w \in SurfaceWidths, h \in SurfaceHeights :
         win = IF g_isResizeMode
               THEN ResizeWindow(Rect(0, 0, w + NC_CX, h + NC_CY))
               ELSE OverlayWindow(Rect(0, 0, w, h))
    /\ invalidated = TRUE
    /\ painted = NoPaint
    /\ reg = NoKey
    /\ lastMsg = Msg("WM_CREATE", 0, "", 0, 0, FALSE, FALSE)
    /\ saved = {}
    /\ capture = {}

NextGrid ==
    \/ WM_PAINT
    \/ \E p \in ClickPoints : WM_LBUTTONDOWN(p.x, p.y)
    \/ \E p \in ClickPoints : WM_RBUTTONDOWN(p.x, p.y)

SpecGrid == InitGrid /\ [][NextGrid]_vars

-----------------------------------------------------------------------------
(* Properties *)

\* The message handled last was a Resize -> Overlay transition: the hot key or
\* the tray command while in Resize mode, or Escape while in Resize mode.
IsToggle ==
    \/ lastMsg.uMsg = "WM_HOTKEY" /\ lastMsg.wParam = RESIZE_HOTKEY_ID
    \/ lastMsg.uMsg = "WM_COMMAND" /\ lastMsg.cmd = "ID_TRAY_RESIZE"

IsEscape == lastMsg.uMsg = "WM_KEYDOWN" /\ lastMsg.wParam = VK_ESCAPE

IsExit == lastMsg.resizeBefore /\ (IsToggle \/ IsEscape)

IsLeftClick == lastMsg.uMsg = "WM_LBUTTONDOWN"

IsRightClick == lastMsg.uMsg = "WM_RBUTTONDOWN"

Visible == win.exists /\ "WS_VISIBLE" \in win.style

\* C1: the load of a run that finds no persisted marker flag leaves present
\* false; within a run, present turns true only by a left click handled in
\* Resize mode and turns false only by a right click handled in Resize mode;
\* the toggles, Escape, the paint and the other messages leave it unchanged.
C1_PresentChangedOnlyByClicks ==
    [][ /\ (pc = "start" /\ (~reg.exists \/ reg.isDotSet = {}) => ~g_isDotSet')
        /\ (pc \in {"loaded", "running", "quit"} /\ ~g_isDotSet /\ g_isDotSet'
              => IsLeftClick' /\ lastMsg'.resizeBefore)
        /\ (pc \in {"loaded", "running", "quit"} /\ g_isDotSet /\ ~g_isDotSet'
              => IsRightClick' /\ lastMsg'.resizeBefore)
        /\ (lastMsg'.uMsg \in {"WM_HOTKEY", "WM_KEYDOWN", "WM_COMMAND", "WM_PAINT",
                               "WM_APP_TRAY_MSG", "WM_CLOSE", "WM_WINDOWPOSCHANGED"}
              => g_isDotSet' = g_isDotSet)
      ]_vars

\* C1 witness: a marker placed by a click is still present after Escape took
\* the window back to Overlay mode.
C1_Witness ==
    /\ IsEscape /\ lastMsg.resizeBefore /\ ~g_isResizeMode
    /\ g_isDotSet /\ g_customDot = Point(50, 30)

C3_ExitPersistsLiveRect ==
    [][ (IsExit' /\ lastMsg'.regOK) =>
            /\ g_windowRect' = win.rect
            /\ reg'.windowRect = {win.rect}
            /\ win'.rect = win.rect
      ]_vars

\* C3 witness: the user moved the window in Resize mode and the toggle
\* persisted that rectangle.
C3_Witness ==
    /\ IsExit /\ IsToggle /\ lastMsg.regOK
    /\ g_windowRect = Rect(10, 10, 400, 300)
    /\ reg.windowRect = {Rect(10, 10, 400, 300)}
    /\ \E s \in saved : s.rect = Rect(10, 10, 400, 300)
    /\ win.rect = Rect(10, 10, 400, 300)

\* C4: as long as no click, move or resize happened since a Resize -> Overlay
\* exit captured the geometry, g_windowRect and the live rectangle equal that
\* first capture, and every later exit whose save succeeds persists it again.
C4_ToggleRoundTripStable ==
    (pc = "running" /\ capture # {}) =>
        \A c \in capture : /\ g_windowRect = c.rect
                           /\ win.rect = c.rect
                           /\ (IsExit /\ lastMsg.regOK => reg.windowRect = {c.rect})

\* C4 witness: a second exit since the first capture, saved successfully.
C4_Witness ==
    /\ pc = "running" /\ IsExit /\ lastMsg.regOK
    /\ \E c \in capture : c.exits >= 2 /\ c.rect = Rect(200, 150, 700, 500)

\* C5: when the key is absent or cannot be opened, the state after the load and
\* after the window creation is the default rectangle, Overlay mode and no
\* marker, and the window is shown at the default rectangle; in every case the
\* created window is in Overlay mode and is shown at g_windowRect.
C5_StartupDefaults ==
    /\ (lastMsg.uMsg \in {"LoadSettings", "WM_CREATE"} /\ ~lastMsg.regOK) =>
           /\ g_windowRect = DefaultRect
           /\ ~g_isResizeMode
           /\ ~g_isDotSet
    /\ (lastMsg.uMsg = "WM_CREATE" /\ ~lastMsg.regOK) =>
           Visible /\ win.rect = DefaultRect
    /\ lastMsg.uMsg \in {"LoadSettings", "WM_CREATE"} => ~g_isResizeMode
    /\ lastMsg.uMsg = "LoadSettings" => ~Visible
    /\ lastMsg.uMsg = "WM_CREATE" => Visible /\ win.rect = ApplyRect(g_windowRect)

\* C5 witness: the key exists with values but could not be opened, and the
\* window is up.
C5_Witness ==
    /\ lastMsg.uMsg = "WM_CREATE" /\ ~lastMsg.regOK
    /\ reg.exists /\ reg.windowRect # {} /\ reg.isDotSet = {1}
    /\ Visible /\ pc = "running"

\* C6 (as stated): g_windowRect has right > left and bottom > top in every
\* state after the load.
C6_GeometryNonDegenerate ==
    pc \in {"loaded", "running", "quit"} =>
        /\ g_windowRect.right > g_windowRect.left
        /\ g_windowRect.bottom > g_windowRect.top

\* C7: the only steps that end the running event loop are the close paths
\* (WM_CLOSE, the tray Exit command), in either mode; each runs the save of
\* SaveSettings on the current state before WM_QUIT is posted, and from there
\* the only step is the end of the message loop.
C7_CloseSavesThenQuits ==
    [][ /\ (pc = "running" /\ pc' # "running") =>
              /\ \/ lastMsg'.uMsg = "WM_CLOSE"
                 \/ lastMsg'.uMsg = "WM_COMMAND" /\ lastMsg'.cmd = "ID_TRAY_EXIT"
              /\ pc' = "quit"
              /\ reg' = IF lastMsg'.regOK
                        THEN [exists |-> TRUE, windowRect |-> {win.rect},
                              isDotSet |-> {IF g_isDotSet THEN 1 ELSE 0},
                              customDot |-> IF g_isDotSet THEN {g_customDot}
                                            ELSE reg.customDot]
                        ELSE reg
              /\ (lastMsg'.regOK => g_windowRect' = win.rect)
              /\ g_customDot' = g_customDot /\ g_isDotSet' = g_isDotSet
        /\ (pc = "quit" => pc' = "exited")
      ]_vars

\* C7 witness: the window was closed in Resize mode after the user moved it
\* and placed a marker, and the save went through.
C7_Witness ==
    /\ pc = "quit" /\ lastMsg.uMsg = "WM_CLOSE" /\ lastMsg.resizeBefore /\ lastMsg.regOK
    /\ reg.windowRect = {Rect(200, 150, 700, 500)}
    /\ reg.isDotSet = {1} /\ reg.customDot = {Point(50, 30)}

\* C8: Escape handled in Resize mode ends in the same state as a toggle handled
\* in Resize mode: Overlay mode, the Overlay window configuration at the live
\* rectangle, g_windowRect equal to it, the marker unchanged, the registry
\* written when the key opens; Escape handled in Overlay mode changes nothing.
C8_EscapeOneWay ==
    [][ /\ (IsExit' =>
              /\ ~g_isResizeMode'
              /\ win' = OverlayWindow(win.rect)
              /\ g_windowRect' = win.rect
              /\ g_customDot' = g_customDot /\ g_isDotSet' = g_isDotSet
              /\ reg' = IF lastMsg'.regOK
                        THEN [exists |-> TRUE, windowRect |-> {win.rect},
                              isDotSet |-> {IF g_isDotSet THEN 1 ELSE 0},
                              customDot |-> IF g_isDotSet THEN {g_customDot}
                                            ELSE reg.customDot]
                        ELSE reg
              /\ invalidated' = invalidated /\ painted' = painted /\ pc' = pc)
        /\ (IsEscape' /\ ~lastMsg'.resizeBefore =>
              UNCHANGED <<pc, g_isResizeMode, g_windowRect, g_customDot, g_isDotSet, win,
                          invalidated, painted, reg, saved>>)
      ]_vars

\* C8 witness: Escape was handled in Overlay mode.
C8_Witness ==
    /\ IsEscape /\ ~lastMsg.resizeBefore
    /\ pc = "running" /\ ~g_isResizeMode /\ win = OverlayWindow(win.rect)

\* C9: a left click handled in Resize mode stores the click's coordinates and
\* sets present; a right click handled in Resize mode clears present and leaves
\* the stored coordinates as they were.
C9_ClicksInResize ==
    [][ /\ (IsLeftClick' /\ lastMsg'.resizeBefore =>
              g_customDot' = Point(lastMsg'.x, lastMsg'.y) /\ g_isDotSet')
        /\ (IsRightClick' /\ lastMsg'.resizeBefore =>
              ~g_isDotSet' /\ g_customDot' = g_customDot)
      ]_vars

\* C9 witness: a right click somewhere else removed the marker placed at
\* {50,30}; the coordinates are still {50,30}.
C9_Witness ==
    /\ IsRightClick /\ lastMsg.resizeBefore
    /\ lastMsg.x = 7 /\ lastMsg.y = 9
    /\ ~g_isDotSet /\ g_customDot = Point(50, 30)

\* C10: a click handled in Overlay mode changes neither the marker nor the
\* mode, the geometry, the window or the registry and requests no redraw; no
\* message handled in Overlay mode changes the marker.
C10_ClicksInOverlayIgnored ==
    [][ /\ ((IsLeftClick' \/ IsRightClick') /\ ~lastMsg'.resizeBefore =>
              UNCHANGED <<pc, g_customDot, g_isDotSet, g_isResizeMode, g_windowRect,
                          win, reg, invalidated, painted, saved>>)
        /\ (pc = "running" /\ ~g_isResizeMode =>
              UNCHANGED <<g_customDot, g_isDotSet>>)
      ]_vars

\* C10 witness: a left click at another point was handled in Overlay mode while
\* a marker was present and no redraw was pending.
C10_Witness ==
    /\ IsLeftClick /\ ~lastMsg.resizeBefore
    /\ g_isDotSet /\ g_customDot # Point(lastMsg.x, lastMsg.y)
    /\ ~invalidated /\ ~g_isResizeMode

IsEnter == ~lastMsg.resizeBefore /\ IsToggle

IsClose ==
    \/ lastMsg.uMsg = "WM_CLOSE"
    \/ lastMsg.uMsg = "WM_COMMAND" /\ lastMsg.cmd = "ID_TRAY_EXIT"

IsPaint == lastMsg.uMsg = "WM_PAINT"

\* Colour-key transparent, click-through, undecorated.
OverlayProperties ==
    /\ win.lwa = "LWA_COLORKEY" /\ win.key = TRANSPARENT_COLOR
    /\ "WS_EX_TRANSPARENT" \in win.exStyle
    /\ win.style \cap {"WS_CAPTION", "WS_SYSMENU", "WS_SIZEBOX"} = {}

\* Alpha-composited near-opaque, pointer-receiving, decorated and sizable.
ResizeProperties ==
    /\ win.lwa = "LWA_ALPHA" /\ win.alpha = 254
    /\ "WS_EX_TRANSPARENT" \notin win.exStyle
    /\ {"WS_CAPTION", "WS_SIZEBOX"} \subseteq win.style

\* C11: while the event loop runs, the window has the Overlay properties exactly
\* when g_isResizeMode is false and the Resize properties exactly when it is
\* true; the layering, the styles and the title change only in a step that
\* handles the toggle or Escape.
C11_WindowAgreesWithMode ==
    /\ [](pc = "running" =>
            /\ (~g_isResizeMode <=> OverlayProperties)
            /\ (g_isResizeMode <=> ResizeProperties))
    /\ [][ (pc = "running" /\ pc' = "running"
              /\ <<win.lwa, win.key, win.alpha, win.exStyle, win.style, win.title>>'
                   # <<win.lwa, win.key, win.alpha, win.exStyle, win.style, win.title>>)
            => (IsToggle' \/ IsEscape')
         ]_vars

\* C11 witness: back in Overlay mode after a toggle into Resize mode and an
\* Escape, with the Overlay properties.
C11_Witness ==
    /\ pc = "running" /\ IsEscape /\ IsExit
    /\ ~g_isResizeMode /\ OverlayProperties /\ ~ResizeProperties

\* The positions in a sequence never decrease.
NonDecreasing(q) == \A i, j \in DOMAIN q : i < j => q[i] <= q[j]

StrictlyIncreasing(q) == \A i, j \in DOMAIN q : i < j => q[i] < q[j]

C13_DegenerateGridDrawsNothing ==
    (IsPaint /\ (g_cols <= 0 \/ g_rows <= 0)) =>
        /\ painted.vlines = <<>>
        /\ painted.hlines = <<>>
        /\ painted.labels = 0
        /\ painted.gdiLive = 0
        /\ pc = "running"
        /\ ENABLED WM_PAINT

\* C13 witness: a paint pass with three columns and zero rows.
C13_Witness ==
    /\ IsPaint /\ g_cols = 3 /\ g_rows = 0
    /\ GetClientRect(win).width = 800
    /\ painted.vlines = <<>> /\ painted.labels = 0

C15_EveryChangeRequestsRedraw ==
    [][ (\/ (IsLeftClick' \/ IsRightClick') /\ lastMsg'.resizeBefore
         \/ IsEnter'
         \/ IsExit')
        => invalidated'
      ]_vars

\* C15 (amended): the clicks handled in Resize mode and the Overlay -> Resize
\* transition each leave a redraw request behind; the Resize -> Overlay
\* transition issues none of its own.
C15_RedrawRequestedExceptOnExit ==
    [][ /\ ((\/ (IsLeftClick' \/ IsRightClick') /\ lastMsg'.resizeBefore
             \/ IsEnter')
            => invalidated')
        /\ (IsExit' => invalidated' = invalidated)
      ]_vars

\* C15 witness: back in Overlay mode with no redraw requested; the last paint
\* used the background of Resize mode.
C15_Witness ==
    /\ IsExit /\ ~g_isResizeMode /\ ~invalidated
    /\ painted.bgColor = COLOR_3DFACE

\* C16: the Overlay -> Resize transition sets the mode and the window
\* properties and leaves g_windowRect, the rectangle of the window, the marker
\* and the registry as they were.
C16_EnterChangesOnlyModeAndWindow ==
    [][ IsEnter' =>
            /\ g_isResizeMode'
            /\ win'.rect = win.rect
            /\ UNCHANGED <<pc, g_windowRect, g_customDot, g_isDotSet, reg, saved, painted>>
      ]_vars

\* C16 witness: Resize mode entered from a window placed by persisted settings
\* with a marker.
C16_Witness ==
    /\ IsEnter /\ g_isResizeMode /\ ResizeProperties
    /\ g_isDotSet /\ reg.windowRect = {Rect(200, 150, 700, 500)}
    /\ win.rect = Rect(200, 150, 700, 500)

\* C17 (as stated): when the key cannot be opened in a Resize -> Overlay
\* transition or at shutdown, the in-memory state ends as with a successful
\* save: geometry captured from the window, marker unchanged, and the registry
\* is unchanged.  (Stated for a g_windowRect of positive width and height.)
C17_FailedSaveEndsAsSuccessfulSave ==
    [][ ( /\ (IsExit' \/ IsClose') /\ ~lastMsg'.regOK
          /\ g_windowRect.right > g_windowRect.left
          /\ g_windowRect.bottom > g_windowRect.top ) =>
            /\ g_windowRect' = win.rect
            /\ g_customDot' = g_customDot /\ g_isDotSet' = g_isDotSet
            /\ reg' = reg
      ]_vars

\* C17 (amended): when the key cannot be opened, a Resize -> Overlay transition
\* ends as with a successful save (Overlay mode and window, geometry captured
\* from the window, marker unchanged) with the registry unchanged; a close
\* keeps the registry, the marker and g_windowRect as they were and goes on to
\* quit; a load keeps the initial values and startup goes on; the registry
\* changes only in a save whose key opened.
C17_PersistenceFailuresTolerated ==
    [][ /\ (IsExit' /\ ~lastMsg'.regOK =>
              /\ ~g_isResizeMode'
              /\ g_windowRect' = win.rect
              /\ win' = OverlayWindow(win.rect)
              /\ g_customDot' = g_customDot /\ g_isDotSet' = g_isDotSet
              /\ reg' = reg
              /\ pc' = "running")
        /\ (IsClose' /\ ~lastMsg'.regOK =>
              /\ reg' = reg
              /\ g_customDot' = g_customDot /\ g_isDotSet' = g_isDotSet
              /\ g_isResizeMode' = g_isResizeMode
              /\ g_windowRect' = g_windowRect
              /\ pc' = "quit")
        /\ (lastMsg'.uMsg = "LoadSettings" /\ ~lastMsg'.regOK =>
              /\ g_windowRect' = DefaultRect
              /\ g_customDot' = DefaultDot /\ ~g_isDotSet'
              /\ reg' = reg
              /\ pc' = "loaded")
        /\ (reg' # reg => (IsExit' \/ IsClose') /\ lastMsg'.regOK)
      ]_vars

\* C17 witness: the save of an exit failed after the user moved the window; the
\* process runs on in Overlay mode with the captured geometry.
C17_Witness ==
    /\ pc = "running" /\ IsExit /\ ~lastMsg.regOK
    /\ ~g_isResizeMode /\ g_windowRect = Rect(10, 10, 400, 300)
    /\ reg.windowRect # {Rect(10, 10, 400, 300)}

\* C18: no drawing object created by a paint pass is alive after it.
C18_NoLiveDrawingObjects == painted.gdiLive = 0

\* C18 witness: a pass that drew the marker.
C18_Witness ==
    /\ IsPaint /\ g_isDotSet /\ painted.dots # {}
    /\ g_cols = 10 /\ g_rows = 6

\* C19: after a paint pass in Overlay mode the background is the colour key
\* configured on the window; after one in Resize mode it is the system colour
\* and not the colour key.
C19_BackgroundMatchesMode ==
    (IsPaint \/ lastMsg.uMsg = "WM_CREATE") =>
        IF g_isResizeMode
        THEN painted.bgColor = COLOR_3DFACE /\ painted.bgColor # TRANSPARENT_COLOR
        ELSE win.lwa = "LWA_COLORKEY" /\ painted.bgColor = win.key

\* C19 witness: a paint pass in Overlay mode after a Resize -> Overlay exit.
C19_Witness ==
    /\ IsPaint /\ ~g_isResizeMode /\ capture # {}
    /\ painted.bgColor = RGB(0, 0, 1)

\* C20: a save whose key opened leaves g_windowRect and the persisted
\* windowRect equal to the rectangle of the window at the save; a close whose
\* key did not open leaves g_windowRect as it was.
C20_SaveRefreshesGeometry ==
    [][ /\ (IsExit' /\ lastMsg'.regOK =>
              g_windowRect' = win'.rect /\ reg'.windowRect = {win'.rect})
        /\ (IsClose' /\ lastMsg'.regOK =>
              g_windowRect' = win.rect /\ reg'.windowRect = {win.rect})
        /\ (IsClose' /\ ~lastMsg'.regOK => g_windowRect' = g_windowRect)
      ]_vars

\* C20 witness: closed in Resize mode with the window where the user moved it;
\* the geometry in memory and in the registry is that rectangle.
C20_Witness ==
    /\ pc = "quit" /\ IsClose /\ lastMsg.resizeBefore /\ lastMsg.regOK
    /\ lastMsg.uMsg = "WM_COMMAND"
    /\ g_windowRect = Rect(10, 10, 400, 300)
    /\ reg.windowRect = {Rect(10, 10, 400, 300)}

====
